---- MODULE Spec2Model ----
(***************************************************************************)
(* Model of the tabular-to-columnar conversion engine of                   *)
(* patentsview_gbq/tasks/task_02_extract_to_parquet.py.                    *)
(*                                                                         *)
(* A string is a sequence of one-character strings.  A DataFrame is a      *)
(* record [columns, dtype, rows]: the ordered column names, the pandas     *)
(* dtype of every column and the rows, each a function from column name to *)
(* a value.  A value is one of                                             *)
(*     [t |-> "str",   s |-> <string>]                                     *)
(*     [t |-> "null"]                  (None / NaN / NaT / pd.NA)          *)
(*     [t |-> "int",   i |-> <integer>]                                    *)
(*     [t |-> "float", f |-> <decimal>]                                    *)
(*     [t |-> "date",  y |-> , m |-> , d |-> ]                             *)
(***************************************************************************)
EXTENDS Integers, Sequences, FiniteSets, TLC

\* ------------------------------------------------------------------------
\* Bounds of the model
\* ------------------------------------------------------------------------

\* Longest member (data rows) of the data-rich inputs.
MaxRows == 2

\* Most members in one archive of the structure-rich inputs.
MaxMembers == 2

\* How many times the scheduler may run the job of one archive.
MaxRuns == 2

\* How many I/O errors the environment may raise in one behaviour.
MaxFaults == 1

\* Rows per chunk of the streaming reader (task_02 line 31 sets 500_000 and
\* line 202 sets 100_000 for "abstract" tables; scaled down so that a member
\* of MaxRows rows spans several chunks).
DEFAULT_CHUNKSIZE == 2

ABSTRACT_CHUNKSIZE == 1

\* ------------------------------------------------------------------------
\* Program constants
\* ------------------------------------------------------------------------

SIZE_THRESHOLD_BYTES == 209715200

\* 1e-10 of line 124, as a number of decimal places.
WHOLE_TOLERANCE_DIGITS == 10

N_COLUMNS == "None"

VERSION == "20251209"

\* ------------------------------------------------------------------------
\* Strings
\* ------------------------------------------------------------------------

Quote == "\""

Digits == {"0", "1", "2", "3", "4", "5", "6", "7", "8", "9"}

DigitVal(c) ==
    CASE c = "0" -> 0 [] c = "1" -> 1 [] c = "2" -> 2 [] c = "3" -> 3
      [] c = "4" -> 4 [] c = "5" -> 5 [] c = "6" -> 6 [] c = "7" -> 7
      [] c = "8" -> 8 [] c = "9" -> 9

AllDigits(s) == \A k \in 1..Len(s) : s[k] \in Digits

RECURSIVE DigitsToNat(_)
DigitsToNat(s) ==
    IF s = <<>> THEN 0
    ELSE 10 * DigitsToNat(SubSeq(s, 1, Len(s) - 1)) + DigitVal(s[Len(s)])

\* str.startswith('"') and str.endswith('"')
StartsWithQuote(x) == Len(x) >= 1 /\ x[1] = Quote

EndsWithQuote(x) == Len(x) >= 1 /\ x[Len(x)] = Quote

\* Python slice x[1:-1]
SliceInner(x) == SubSeq(x, 2, Len(x) - 1)

\* ------------------------------------------------------------------------
\* Values
\* ------------------------------------------------------------------------

Null == [t |-> "null"]

StrV(s) == [t |-> "str", s |-> s]

IntV(n) == [t |-> "int", i |-> n]

FloatV(x) == [t |-> "float", f |-> x]

DateV(y, m, d) == [t |-> "date", y |-> y, m |-> m, d |-> d]

IsNull(v) == v.t = "null"

\* ------------------------------------------------------------------------
\* _strip_outer_quotes (lines 34-43)
\* ------------------------------------------------------------------------

\* The lambda of lines 39-41 on one cell.
StripCell(x) ==
    IF x.t = "str" /\ StartsWithQuote(x.s) /\ EndsWithQuote(x.s)
    THEN StrV(SliceInner(x.s))
    ELSE x

\* df[col] = df[col].apply(...)
StripColumn(df, col) ==
    [df EXCEPT !.rows = [k \in 1..Len(df.rows) |->
                            [df.rows[k] EXCEPT ![col] = StripCell(@)]]]

RECURSIVE StripColumns(_, _)
StripColumns(df, k) ==
    IF k > Len(df.columns) THEN df
    ELSE LET col == df.columns[k]
         IN  StripColumns(IF df.dtype[col] = "object"
                          THEN StripColumn(df, col)
                          ELSE df,
                          k + 1)

strip_outer_quotes(df) == StripColumns(df, 1)

\* ------------------------------------------------------------------------
\* _apply_column_limit (lines 46-54): N_COLUMNS is None, nothing is trimmed
\* ------------------------------------------------------------------------

apply_column_limit(df) ==
    IF N_COLUMNS = "None"
    THEN df
    ELSE [df EXCEPT !.columns = SubSeq(df.columns, 1, N_COLUMNS)]

\* ------------------------------------------------------------------------
\* pd.to_datetime(..., format='%Y-%m-%d', errors='coerce').dt.date on a cell
\* ------------------------------------------------------------------------

IsLeap(y) == (y % 4 = 0 /\ y % 100 # 0) \/ y % 400 = 0

DaysInMonth(y, m) ==
    IF m = 2 THEN (IF IsLeap(y) THEN 29 ELSE 28)
    ELSE IF m \in {4, 6, 9, 11} THEN 30 ELSE 31

\* The splits of s as YYYY-M[M]-D[D]: %Y takes four digits, %m and %d one or
\* two.
DateSplits(s) ==
    {p \in {1, 2} \X {1, 2} :
        /\ Len(s) = 4 + 1 + p[1] + 1 + p[2]
        /\ AllDigits(SubSeq(s, 1, 4))
        /\ s[5] = "-"
        /\ AllDigits(SubSeq(s, 6, 5 + p[1]))
        /\ s[6 + p[1]] = "-"
        /\ AllDigits(SubSeq(s, 7 + p[1], Len(s)))}

ParseDate(s) ==
    IF DateSplits(s) = {} THEN Null
    ELSE LET p == CHOOSE q \in DateSplits(s) : TRUE
             y == DigitsToNat(SubSeq(s, 1, 4))
             m == DigitsToNat(SubSeq(s, 6, 5 + p[1]))
             d == DigitsToNat(SubSeq(s, 7 + p[1], Len(s)))
         IN  IF y >= 1 /\ m \in 1..12 /\ d \in 1..DaysInMonth(y, m)
             THEN DateV(y, m, d)
             ELSE Null

\* One cell of a column handed to pd.to_datetime: a string is parsed, anything
\* else (None, NaT) is NaT.
ToDateCell(x) == IF x.t = "str" THEN ParseDate(x.s) ELSE Null

\* ------------------------------------------------------------------------
\* pd.to_numeric(..., errors='coerce') on a cell
\* ------------------------------------------------------------------------

\* A decimal: sign, integer part, fractional digits without trailing zeros.
RECURSIVE TrimZeros(_)
TrimZeros(ds) ==
    IF ds # <<>> /\ ds[Len(ds)] = 0
    THEN TrimZeros(SubSeq(ds, 1, Len(ds) - 1))
    ELSE ds

Decimal(neg, ip, frac) ==
    LET fr == TrimZeros(frac)
    IN  [neg |-> neg /\ (ip # 0 \/ fr # <<>>), ip |-> ip, frac |-> fr]

DotPositions(s) == {k \in 1..Len(s) : s[k] = "."}

\* An unsigned literal: digits with at most one point and at least one digit.
ParseUnsigned(s) ==
    LET dots == DotPositions(s)
    IN  IF Cardinality(dots) > 1 THEN Null
        ELSE LET dot  == IF dots = {} THEN Len(s) + 1
                         ELSE CHOOSE k \in dots : TRUE
                 ipS  == SubSeq(s, 1, dot - 1)
                 frS  == SubSeq(s, dot + 1, Len(s))
             IN  IF AllDigits(ipS) /\ AllDigits(frS) /\ Len(ipS) + Len(frS) >= 1
                 THEN FloatV(Decimal(FALSE, DigitsToNat(ipS),
                                     [k \in 1..Len(frS) |-> DigitVal(frS[k])]))
                 ELSE Null

ParseNumber(s) ==
    IF Len(s) >= 1 /\ s[1] \in {"-", "+"}
    THEN LET u == ParseUnsigned(SubSeq(s, 2, Len(s)))
         IN  IF IsNull(u) THEN Null
             ELSE FloatV(Decimal(s[1] = "-", u.f.ip, u.f.frac))
    ELSE ParseUnsigned(s)

\* A string is parsed; a date object, None or NaT is not a number.
ToNumericCell(x) == IF x.t = "str" THEN ParseNumber(x.s) ELSE Null

\* (x - x.round()).abs() < 1e-10 (line 124)
FirstDigitsAll(frac, dgt) ==
    /\ Len(frac) >= WHOLE_TOLERANCE_DIGITS
    /\ \A k \in 1..WHOLE_TOLERANCE_DIGITS : frac[k] = dgt

IsWhole(x) ==
    \/ \A k \in 1..Len(x.frac) : k <= WHOLE_TOLERANCE_DIGITS => x.frac[k] = 0
    \/ FirstDigitsAll(x.frac, 9)

\* x.round(), for an x that is whole within the tolerance
RoundWhole(x) ==
    LET mag == IF x.frac # <<>> /\ x.frac[1] >= 5 THEN x.ip + 1 ELSE x.ip
    IN  IF x.neg THEN 0 - mag ELSE mag

\* ------------------------------------------------------------------------
\* _get_column_types (lines 57-85)
\* ------------------------------------------------------------------------

\* Optional[Set[str]]
NoneSet == [none |-> TRUE, set |-> {}]

SomeSet(S) == [none |-> FALSE, set |-> S]

\* `S if S else None`
OrNone(S) == IF S # {} THEN SomeSet(S) ELSE NoneSet

FieldsOfType(schema, type) ==
    {schema[k].name : k \in {n \in 1..Len(schema) : schema[n].type = type}}

\* get_column_types with a slip: no except clause around the lookups, so what
\* reads as a field of a malformed artifact is used.
get_column_types_lenient(artifact) ==
    IF artifact.kind = "absent" THEN <<NoneSet, NoneSet>>
    ELSE <<OrNone(FieldsOfType(artifact.fields, "DATE")),
           OrNone(FieldsOfType(artifact.fields, "INTEGER"))>>

\* A schema artifact is absent, malformed (json.load or a field lookup raises;
\* `fields` is what of it reads as a field) or a JSON array of fields.
get_column_types(artifact) ==
    IF artifact.kind = "absent" THEN <<NoneSet, NoneSet>>
    ELSE IF artifact.kind = "malformed" THEN <<NoneSet, NoneSet>>
    ELSE <<OrNone(FieldsOfType(artifact.fields, "DATE")),
           OrNone(FieldsOfType(artifact.fields, "INTEGER"))>>

\* ------------------------------------------------------------------------
\* _parse_date_columns (lines 88-103)
\* ------------------------------------------------------------------------

\* df[col] = values, with the dtype pandas gives the new column
SetColumn(df, col, values, dtype) ==
    [df EXCEPT !.dtype = [@ EXCEPT ![col] = dtype],
               !.rows = [k \in 1..Len(df.rows) |->
                            [df.rows[k] EXCEPT ![col] = values[k]]]]

\* Lines 97-101 on one column: the result is an object column of
\* datetime.date and NaT.
ParseDateColumn(df, col) ==
    SetColumn(df, col,
              [k \in 1..Len(df.rows) |-> ToDateCell(df.rows[k][col])],
              "object")

RECURSIVE ParseDateFrom(_, _, _)
ParseDateFrom(df, date_columns, k) ==
    IF k > Len(df.columns) THEN df
    ELSE ParseDateFrom(IF df.columns[k] \in date_columns
                       THEN ParseDateColumn(df, df.columns[k])
                       ELSE df,
                       date_columns, k + 1)

parse_date_columns(df, date_columns) ==
    IF date_columns.none THEN df
    ELSE ParseDateFrom(df, date_columns.set, 1)

\* ------------------------------------------------------------------------
\* _parse_integer_columns (lines 106-137)
\* ------------------------------------------------------------------------

\* ParseIntegerColumn with a slip: is_whole.any() for is_whole.all() (line 125).
ParseIntegerColumnAnyWhole(df, col) ==
    LET numeric_series == [k \in 1..Len(df.rows) |->
                              ToNumericCell(df.rows[k][col])]
        non_null == {k \in 1..Len(df.rows) : ~IsNull(numeric_series[k])}
    IN  IF non_null # {}
        THEN IF \E k \in non_null : IsWhole(numeric_series[k].f)
             THEN SetColumn(df, col,
                            [k \in 1..Len(df.rows) |->
                                IF k \in non_null
                                THEN IntV(RoundWhole(numeric_series[k].f))
                                ELSE Null],
                            "Int64")
             ELSE SetColumn(df, col, numeric_series, "float64")
        ELSE SetColumn(df, col, numeric_series, "Int64")

\* Lines 114-135 on one column.
ParseIntegerColumn(df, col) ==
    LET numeric_series == [k \in 1..Len(df.rows) |->
                              ToNumericCell(df.rows[k][col])]
        non_null == {k \in 1..Len(df.rows) : ~IsNull(numeric_series[k])}
    IN  IF non_null # {}
        THEN IF \A k \in non_null : IsWhole(numeric_series[k].f)
             THEN SetColumn(df, col,
                            [k \in 1..Len(df.rows) |->
                                IF k \in non_null
                                THEN IntV(RoundWhole(numeric_series[k].f))
                                ELSE Null],
                            "Int64")
             ELSE SetColumn(df, col, numeric_series, "float64")
        ELSE SetColumn(df, col, numeric_series, "Int64")

RECURSIVE ParseIntegerFrom(_, _, _)
ParseIntegerFrom(df, integer_columns, k) ==
    IF k > Len(df.columns) THEN df
    ELSE ParseIntegerFrom(IF df.columns[k] \in integer_columns
                          THEN ParseIntegerColumn(df, df.columns[k])
                          ELSE df,
                          integer_columns, k + 1)

parse_integer_columns(df, integer_columns) ==
    IF integer_columns.none THEN df
    ELSE ParseIntegerFrom(df, integer_columns.set, 1)

\* ------------------------------------------------------------------------
\* pa.Table.from_pandas (line 169; inside df.to_parquet, line 238)
\* ------------------------------------------------------------------------

\* The Arrow type of a column: the pandas dtype decides it, and for an object
\* column the values do (no value that is not null: the type "null").
ArrowType(df, col) ==
    CASE df.dtype[col] = "Int64"   -> "int64"
      [] df.dtype[col] = "float64" -> "double"
      [] OTHER ->
           IF \E k \in 1..Len(df.rows) : df.rows[k][col].t = "date"
           THEN "date32"
           ELSE IF \E k \in 1..Len(df.rows) : df.rows[k][col].t = "str"
                THEN "string"
                ELSE "null"

TableSchema(df) ==
    [k \in 1..Len(df.columns) |->
        [name |-> df.columns[k], type |-> ArrowType(df, df.columns[k])]]

\* A table: its schema and its rows, each row the values in column order.
TableFromPandas(df) ==
    [schema |-> TableSchema(df),
     rows   |-> [k \in 1..Len(df.rows) |->
                    [c \in 1..Len(df.columns) |-> df.rows[k][df.columns[c]]]]]

\* TypedTable with a slip: the quotes are removed after the coercions.
TypedTableCoerceFirst(df, date_columns, integer_columns) ==
    TableFromPandas(
        strip_outer_quotes(
            parse_integer_columns(
                parse_date_columns(apply_column_limit(df), date_columns),
                integer_columns)))

\* The steps every chunk and every buffered block goes through
\* (lines 164-169 and 232-238).
TypedTable(df, date_columns, integer_columns) ==
    TableFromPandas(
        parse_integer_columns(
            parse_date_columns(
                strip_outer_quotes(apply_column_limit(df)),
                date_columns),
            integer_columns))

\* ------------------------------------------------------------------------
\* State
\* ------------------------------------------------------------------------

VARIABLES
    archives,       \* bld/raw/<dataset>: zip file name -> its members
    schema_files,   \* resources/patentsview_schemas/<dataset>: table -> artifact
    fs,             \* bld/converted/<dataset>: parquet path -> file
    log,            \* conversion_log.txt, the lines on disk
    pc,             \* per job: where convert_zip stands
    member_idx,     \* per job: the TSV member being converted
    chunk_idx,      \* per job: chunks the streaming reader has delivered
    writer,         \* per job: the pq.ParquetWriter of the member
    log_buf,        \* per job: lines written to log_file and not yet flushed
    outcome,        \* per job: how the last run ended (returned or raised)
    runs,           \* per job: runs started
    completed,      \* per job: some run converted every member and returned
    faults,         \* I/O errors raised so far
    log_pos         \* per job: where its log_file handle writes next

vars == <<archives, schema_files, fs, log, pc, member_idx, chunk_idx, writer,
          log_buf, outcome, runs, completed, faults, log_pos>>

Jobs == DOMAIN archives

\* ------------------------------------------------------------------------
\* task_extract_to_parquet: names and paths (lines 257-264)
\* ------------------------------------------------------------------------

DropLast(name) == SubSeq(name, 1, Len(name) - 1)

\* os.path.splitext twice: ".zip" goes, and then ".tsv" if the name ends so
TableName(zip_name) ==
    LET table_name == DropLast(zip_name)
    IN  IF Len(table_name) >= 1 /\ table_name[Len(table_name)] = "tsv"
        THEN DropLast(table_name)
        ELSE table_name

ParquetPath(zip_name) == [table |-> TableName(zip_name), version |-> VERSION]

Exists(path) == fs[path].exists

NoFile == [exists |-> FALSE, schema |-> <<>>, rows |-> <<>>, footer |-> FALSE]

\* ------------------------------------------------------------------------
\* Members, strategy, chunks (lines 194-202, 294, 149-158, 219-227)
\* ------------------------------------------------------------------------

\* m.filename.endswith(".tsv")
IsTsv(m) == m.filename[Len(m.filename)] = "tsv"

TsvMembers(j) == SelectSeq(archives[j], IsTsv)

CurrentMember(j) == TsvMembers(j)[member_idx[j]]

\* use_streaming with a slip: > for >= (line 194).
use_streaming_above(m) == m.file_size > SIZE_THRESHOLD_BYTES

use_streaming(m) == m.file_size >= SIZE_THRESHOLD_BYTES

\* "abstract" in table_name
ContainsAbstract(table_name) ==
    \E k \in 1..Len(table_name) : table_name[k] \in {"g_patent_abstract"}

lower_chunksize(table_name) ==
    IF ContainsAbstract(table_name) THEN ABSTRACT_CHUNKSIZE
    ELSE DEFAULT_CHUNKSIZE

Min(a, b) == IF a <= b THEN a ELSE b

\* pd.read_csv(dtype=str, keep_default_na=False): every cell a string
ReadFrame(header, rows) ==
    [columns |-> header,
     dtype   |-> [c \in {header[k] : k \in 1..Len(header)} |-> "object"],
     rows    |-> rows]

\* The reader delivers a first chunk even when the member has no data row,
\* and then one chunk per chunksize rows that are left.
HasNextChunk(rows, chunksize, delivered) ==
    delivered = 0 \/ delivered * chunksize < Len(rows)

\* NextChunk with a slip: a chunk after the first starts one row early.
NextChunkOverlapping(rows, chunksize, delivered) ==
    SubSeq(rows, IF delivered = 0 THEN 1 ELSE delivered * chunksize,
           Min((delivered + 1) * chunksize, Len(rows)))

NextChunk(rows, chunksize, delivered) ==
    SubSeq(rows, delivered * chunksize + 1,
           Min((delivered + 1) * chunksize, Len(rows)))

ColumnTypes(j) == get_column_types(schema_files[TableName(j)])

\* ------------------------------------------------------------------------
\* Log lines (lines 205-207, 239-241, 313)
\* ------------------------------------------------------------------------

StreamingLine(table_name, m) ==
    [kind |-> "STREAMING", table |-> table_name, size |-> m.file_size,
     chunksize |-> lower_chunksize(table_name)]

InMemoryLine(table_name, m, table) ==
    [kind |-> "IN_MEMORY", table |-> table_name, size |-> m.file_size,
     rows |-> Len(table.rows), cols |-> Len(table.schema)]

ErrorLine(zip_name, err) ==
    [kind |-> "ERROR", zip |-> zip_name, error |-> err]

\* ------------------------------------------------------------------------
\* The log file handle (line 288: open(log_path, "a"), one per running job)
\* ------------------------------------------------------------------------

\* A write of an append-mode handle is "go to the end of the file, write".
\* Nothing in convert_zip orders the two steps of one job against the writes
\* of another job, so a handle is either still to go to the end, or has gone
\* there and stands at the offset that was the end.
AtEnd == [placed |-> FALSE, offset |-> 0]

AtOffset(n) == [placed |-> TRUE, offset |-> n]

\* What is left of a line whose head another job's write went over.
PartialLine(line) == [kind |-> "PARTIAL", of |-> line]

\* The file after `text` is written at offset pos, where pos is no longer the
\* end: the text lies over the head of what stood there, and what it does not
\* reach stays, starting inside a line.
WrittenOver(file, pos, text) ==
    LET rest == SubSeq(file, pos + 1, Len(file))
    IN  {SubSeq(file, 1, pos) \o text \o <<PartialLine(rest[k])>>
             \o SubSeq(rest, k + 1, Len(rest)) :
         k \in 1..Min(Len(rest), Len(text) + 1)}

\* The log on disk after job j's handle is flushed with `text` in its buffer.
LogAfterWrite(j, text) ==
    IF log_pos[j].placed /\ log_pos[j].offset < Len(log)
    THEN WrittenOver(log, log_pos[j].offset, text)
    ELSE {log \o text}

\* ------------------------------------------------------------------------
\* The writer (lines 160, 170-176)
\* ------------------------------------------------------------------------

Unopened == [state |-> "Unopened", schema |-> <<>>]

OpenWriter(schema) == [state |-> "Open", schema |-> schema]

\* pq.ParquetWriter(parquet_path, table.schema): the file is created, or
\* truncated when it is there
CreatedFile(schema) ==
    [exists |-> TRUE, schema |-> schema, rows |-> <<>>, footer |-> FALSE]

\* writer.close(): the footer is written
ClosedFile(file) == [file EXCEPT !.footer = TRUE]

\* finally: if writer is not None: writer.close()
CloseWriter(w) == IF w.state = "Open" THEN [w EXCEPT !.state = "Closed"] ELSE w

FileAfterClose(w, file) == IF w.state = "Open" THEN ClosedFile(file) ELSE file

\* ------------------------------------------------------------------------
\* Inputs
\* ------------------------------------------------------------------------

sWhole == <<"1">>

sFraction == <<"2", ".", "5">>

sDate == <<"2", "0", "2", "0", "-", "0", "1", "-", "0", "5">>

sEmpty == <<>>

sQuote == <<Quote>>

sQuotedWhole == <<Quote, "1", Quote>>

sQuotedDate ==
    <<Quote, "2", "0", "2", "0", "-", "0", "1", "-", "0", "5", Quote>>

sInnerQuote == <<"a", Quote, "b">>

\* 1.00000000001: not whole, and within 1e-10 of 1
sNearWhole ==
    <<"1", ".", "0", "0", "0", "0", "0", "0", "0", "0", "0", "0", "1">>

\* the date of sDate without the leading zeros
sShortDate == <<"2", "0", "2", "0", "-", "1", "-", "5">>

sSlashDate == <<"0", "1", "/", "0", "5", "/", "2", "0", "2", "0">>

CellValues ==
    {sWhole, sFraction, sDate, sEmpty, sQuote, sQuotedWhole, sInnerQuote,
     sNearWhole, sShortDate, sSlashDate, sQuotedDate}

CoreCellValues == {sWhole, sFraction, sDate, sEmpty}

SmallCellValues == {sWhole, sFraction}

Header == <<"id", "v">>

RawRow(cell) == [id |-> StrV(<<"k">>), v |-> StrV(cell)]

RowSeqs(cells, n) ==
    UNION {[1..k -> {RawRow(c) : c \in cells}] : k \in 0..n}

Sizes == {SIZE_THRESHOLD_BYTES - 1, SIZE_THRESHOLD_BYTES}

TsvMember(size, rows) ==
    [filename |-> <<"data", "tsv">>, file_size |-> size, header |-> Header,
     rows |-> rows]

TxtMember ==
    [filename |-> <<"readme", "txt">>, file_size |-> 1, header |-> <<>>,
     rows |-> <<>>]

\* One member: up to MaxRows rows of the core cell values, or one row of any
\* cell value.
DataArchives ==
    {<<TsvMember(sz, r)>> :
        sz \in Sizes,
        r \in RowSeqs(CoreCellValues, MaxRows) \cup RowSeqs(CellValues, 1)}

\* Up to MaxMembers members, among them members that are no TSV.
SmallMembers ==
    {TxtMember} \cup
    {TsvMember(sz, <<RawRow(c)>>) : sz \in Sizes, c \in SmallCellValues}

\* The members of one archive have different names.
NamedMember(m, i) ==
    [m EXCEPT !.filename = <<<<"a", "b", "c", "d">>[i]>> \o @]

StructArchives ==
    UNION {{[i \in 1..k |-> NamedMember(f[i], i)] : f \in [1..k -> SmallMembers]} :
              k \in 0..MaxMembers}

ZipNames ==
    {<<"g_patent", "tsv", "zip">>, <<"g_patent_abstract", "zip">>}

Field(name, type) == [name |-> name, type |-> type]

SchemaArtifacts ==
    {[kind |-> "absent", fields |-> <<>>],
     [kind |-> "malformed", fields |-> <<Field("v", "DATE")>>],
     [kind |-> "json", fields |-> <<Field("id", "STRING"), Field("v", "DATE")>>],
     [kind |-> "json", fields |-> <<Field("id", "STRING"), Field("v", "INTEGER")>>],
     [kind |-> "json", fields |-> <<Field("v", "DATE"), Field("v", "INTEGER")>>]}

\* ------------------------------------------------------------------------
\* Init
\* ------------------------------------------------------------------------

InitJobs(names) ==
    /\ fs = [p \in {ParquetPath(z) : z \in names} |-> NoFile]
    /\ log = <<>>
    /\ pc = [j \in names |-> "new"]
    /\ member_idx = [j \in names |-> 0]
    /\ chunk_idx = [j \in names |-> 0]
    /\ writer = [j \in names |-> Unopened]
    /\ log_buf = [j \in names |-> <<>>]
    /\ outcome = [j \in names |-> "none"]
    /\ runs = [j \in names |-> 0]
    /\ completed = [j \in names |-> FALSE]
    /\ faults = 0
    /\ log_pos = [j \in names |-> AtEnd]

\* One archive in the raw directory, nothing converted yet.
Init ==
    \E z \in ZipNames :
        /\ archives \in [{z} -> DataArchives \cup StructArchives]
        /\ schema_files \in [{TableName(z)} -> SchemaArtifacts]
        /\ InitJobs({z})

\* ------------------------------------------------------------------------
\* How a run of convert_zip ends
\* ------------------------------------------------------------------------

\* Raise with a slip: the exception is caught and not raised again.
RaiseSwallowed(j, err) ==
    /\ log' \in LogAfterWrite(j, log_buf[j] \o <<ErrorLine(j, err)>>)
    /\ log_pos' = [log_pos EXCEPT ![j] = AtEnd]
    /\ log_buf' = [log_buf EXCEPT ![j] = <<>>]
    /\ pc' = [pc EXCEPT ![j] = "done"]
    /\ outcome' = [outcome EXCEPT ![j] = "converted"]
    /\ UNCHANGED <<archives, schema_files, member_idx, chunk_idx, runs,
                   completed>>

\* except Exception (lines 312-315) and the exit of `with open(log_path)`:
\* the ERROR line is written, the log file is flushed and closed, and the
\* exception goes on to the caller.
Raise(j, err) ==
    /\ log' \in LogAfterWrite(j, log_buf[j] \o <<ErrorLine(j, err)>>)
    /\ log_pos' = [log_pos EXCEPT ![j] = AtEnd]
    /\ log_buf' = [log_buf EXCEPT ![j] = <<>>]
    /\ pc' = [pc EXCEPT ![j] = "failed"]
    /\ outcome' = [outcome EXCEPT ![j] = err]
    /\ UNCHANGED <<archives, schema_files, member_idx, chunk_idx, runs,
                   completed>>

\* An I/O error of the environment.
Fault == faults < MaxFaults /\ faults' = faults + 1

\* The loop of line 300 goes to the next member; after the last one the
\* archive and the log file are closed and convert_zip returns (line 310).
\* buf is what the job has written to its log_file so far.
Proceed(j, buf) ==
    IF member_idx[j] < Len(TsvMembers(j))
    THEN /\ pc' = [pc EXCEPT ![j] = "member"]
         /\ member_idx' = [member_idx EXCEPT ![j] = @ + 1]
         /\ log_buf' = [log_buf EXCEPT ![j] = buf]
         /\ UNCHANGED <<archives, schema_files, log, chunk_idx, outcome, runs,
                        completed, faults, log_pos>>
    ELSE /\ pc' = [pc EXCEPT ![j] = "done"]
         /\ log' \in LogAfterWrite(j, buf)
         /\ log_pos' = [log_pos EXCEPT ![j] = AtEnd]
         /\ log_buf' = [log_buf EXCEPT ![j] = <<>>]
         /\ outcome' = [outcome EXCEPT ![j] = "converted"]
         /\ completed' = [completed EXCEPT ![j] = TRUE]
         /\ UNCHANGED <<archives, schema_files, member_idx, chunk_idx, runs,
                        faults>>

\* ------------------------------------------------------------------------
\* The scheduler
\* ------------------------------------------------------------------------

\* task_extract_to_parquet, one zip file (lines 257-277): no task for an
\* archive whose output is there.
GenerateTask(j) ==
    /\ pc[j] = "new"
    /\ pc' = [pc EXCEPT ![j] = IF Exists(ParquetPath(j)) THEN "not_generated"
                               ELSE "ready"]
    /\ UNCHANGED <<archives, schema_files, fs, log, member_idx, chunk_idx,
                   writer, log_buf, outcome, runs, completed, faults,
                   log_pos>>

\* The build is run again: the generator looks at the archive again.
Rebuild(j) ==
    /\ pc[j] \in {"done", "failed", "not_generated"}
    /\ runs[j] < MaxRuns
    /\ pc' = [pc EXCEPT ![j] = "new"]
    /\ UNCHANGED <<archives, schema_files, fs, log, member_idx, chunk_idx,
                   writer, log_buf, outcome, runs, completed, faults,
                   log_pos>>

\* At-least-once scheduling: a task that ran is run again.
Retry(j) ==
    /\ pc[j] \in {"done", "failed"}
    /\ runs[j] < MaxRuns
    /\ pc' = [pc EXCEPT ![j] = "ready"]
    /\ UNCHANGED <<archives, schema_files, fs, log, member_idx, chunk_idx,
                   writer, log_buf, outcome, runs, completed, faults,
                   log_pos>>

\* ------------------------------------------------------------------------
\* convert_zip (lines 271-315)
\* ------------------------------------------------------------------------

\* SkipConverted with a slip: the check comes after the log file is opened and
\* a line is written.
SkipConvertedLogged(j) ==
    /\ pc[j] = "ready"
    /\ Exists(ParquetPath(j))
    /\ pc' = [pc EXCEPT ![j] = "done"]
    /\ outcome' = [outcome EXCEPT ![j] = "skipped"]
    /\ runs' = [runs EXCEPT ![j] = @ + 1]
    /\ log' = Append(log, ErrorLine(j, "skipped"))
    /\ UNCHANGED <<archives, schema_files, fs, member_idx, chunk_idx,
                   writer, log_buf, completed, faults,
                   log_pos>>

\* Lines 280-282.
SkipConverted(j) ==
    /\ pc[j] = "ready"
    /\ Exists(ParquetPath(j))
    /\ pc' = [pc EXCEPT ![j] = "done"]
    /\ outcome' = [outcome EXCEPT ![j] = "skipped"]
    /\ runs' = [runs EXCEPT ![j] = @ + 1]
    /\ UNCHANGED <<archives, schema_files, fs, log, member_idx, chunk_idx,
                   writer, log_buf, completed, faults,
                   log_pos>>

\* Lines 284-289: the log file is opened for appending.
StartConversion(j) ==
    /\ pc[j] = "ready"
    /\ ~Exists(ParquetPath(j))
    /\ pc' = [pc EXCEPT ![j] = "archive"]
    /\ outcome' = [outcome EXCEPT ![j] = "none"]
    /\ runs' = [runs EXCEPT ![j] = @ + 1]
    /\ member_idx' = [member_idx EXCEPT ![j] = 0]
    /\ chunk_idx' = [chunk_idx EXCEPT ![j] = 0]
    /\ writer' = [writer EXCEPT ![j] = Unopened]
    /\ log_buf' = [log_buf EXCEPT ![j] = <<>>]
    /\ UNCHANGED <<archives, schema_files, fs, log, completed, faults,
                   log_pos>>

\* Line 292: zipfile.ZipFile raises.
ArchiveUnreadable(j) ==
    /\ pc[j] = "archive"
    /\ Fault
    /\ Raise(j, "BadZipFile")
    /\ UNCHANGED <<fs, writer>>

\* NoTsvMembers with a slip: without the check of lines 296-297 the loop runs
\* over no member and convert_zip returns.
NoTsvMembersIgnored(j) ==
    /\ pc[j] = "archive"
    /\ TsvMembers(j) = <<>>
    /\ pc' = [pc EXCEPT ![j] = "done"]
    /\ outcome' = [outcome EXCEPT ![j] = "converted"]
    /\ UNCHANGED <<archives, schema_files, fs, log, member_idx, chunk_idx,
                   writer, log_buf, runs, completed, faults,
                   log_pos>>

\* Lines 294-297.
NoTsvMembers(j) ==
    /\ pc[j] = "archive"
    /\ TsvMembers(j) = <<>>
    /\ Raise(j, "NoTsvMembers")
    /\ UNCHANGED <<fs, writer, faults>>

\* Lines 292-300.
OpenArchive(j) ==
    /\ pc[j] = "archive"
    /\ TsvMembers(j) # <<>>
    /\ pc' = [pc EXCEPT ![j] = "member"]
    /\ member_idx' = [member_idx EXCEPT ![j] = 1]
    /\ UNCHANGED <<archives, schema_files, fs, log, chunk_idx, writer,
                   log_buf, outcome, runs, completed, faults,
                   log_pos>>

\* ------------------------------------------------------------------------
\* _convert_member_to_parquet (lines 179-242)
\* ------------------------------------------------------------------------

\* Line 196: zip_ref.open raises, or the reader does on the first bytes.
MemberUnreadable(j) ==
    /\ pc[j] = "member"
    /\ Fault
    /\ Raise(j, "ReadError")
    /\ UNCHANGED <<fs, writer>>

\* Lines 199-207 and 149-160: the STREAMING line is written, the reader is
\* made, writer = None.
BeginStreaming(j) ==
    /\ pc[j] = "member"
    /\ use_streaming(CurrentMember(j))
    /\ pc' = [pc EXCEPT ![j] = "streaming"]
    /\ chunk_idx' = [chunk_idx EXCEPT ![j] = 0]
    /\ writer' = [writer EXCEPT ![j] = Unopened]
    /\ log_buf' = [log_buf EXCEPT ![j] =
                      Append(@, StreamingLine(TableName(j), CurrentMember(j)))]
    /\ UNCHANGED <<archives, schema_files, fs, log, member_idx, outcome, runs,
                   completed, faults,
                   log_pos>>

BufferedTable(j) ==
    LET m == CurrentMember(j)
    IN  TypedTable(ReadFrame(m.header, m.rows),
                   ColumnTypes(j)[1], ColumnTypes(j)[2])

\* df.to_parquet(parquet_path): the whole table in one file
WrittenFile(table) ==
    [exists |-> TRUE, schema |-> table.schema, rows |-> table.rows,
     footer |-> TRUE]

\* Lines 217-242.
ConvertBuffered(j) ==
    /\ pc[j] = "member"
    /\ ~use_streaming(CurrentMember(j))
    /\ fs' = [fs EXCEPT ![ParquetPath(j)] = WrittenFile(BufferedTable(j))]
    /\ Proceed(j, Append(log_buf[j],
                         InMemoryLine(TableName(j), CurrentMember(j),
                                      BufferedTable(j))))
    /\ UNCHANGED writer

\* Line 238 raises: nothing was written, or a file without its footer is left.
BufferedWriteFails(j) ==
    /\ pc[j] = "member"
    /\ ~use_streaming(CurrentMember(j))
    /\ Fault
    /\ \/ UNCHANGED fs
       \/ fs' = [fs EXCEPT ![ParquetPath(j)] =
                    CreatedFile(BufferedTable(j).schema)]
    /\ Raise(j, "WriteError")
    /\ UNCHANGED writer

\* ------------------------------------------------------------------------
\* _write_parquet_streaming (lines 140-176)
\* ------------------------------------------------------------------------

ChunkSize(j) == lower_chunksize(TableName(j))

MoreChunks(j) ==
    HasNextChunk(CurrentMember(j).rows, ChunkSize(j), chunk_idx[j])

\* Lines 162-169: the table of the chunk the reader delivers next.
ChunkTable(j) ==
    LET m == CurrentMember(j)
    IN  TypedTable(ReadFrame(m.header,
                             NextChunk(m.rows, ChunkSize(j), chunk_idx[j])),
                   ColumnTypes(j)[1], ColumnTypes(j)[2])

\* WriterFor with a slip: no `if writer is None`, a writer is made for every
\* chunk.
WriterForEveryChunk(j, table) == OpenWriter(table.schema)

\* Lines 170-172: the writer after `if writer is None`, and the file.
WriterFor(j, table) ==
    IF writer[j].state = "Unopened" THEN OpenWriter(table.schema)
    ELSE writer[j]

FileFor(j, table) ==
    IF writer[j].state = "Unopened" THEN CreatedFile(table.schema)
    ELSE fs[ParquetPath(j)]

\* ParquetWriter.write_table takes only a table of the writer's schema.
SchemaAccepted(w, table) == table.schema = w.schema

\* AbortStreaming with a slip: the writer is one object shared by the jobs,
\* and finally closes it for all of them.
AbortStreamingShared(j, w, file, err) ==
    /\ writer' = [k \in Jobs |->
                      IF k = j THEN CloseWriter(w) ELSE CloseWriter(writer[k])]
    /\ fs' = [fs EXCEPT ![ParquetPath(j)] = FileAfterClose(w, file)]
    /\ Raise(j, err)

\* AbortStreaming with a slip: no finally clause, the writer is closed only
\* after the loop.
AbortStreamingNoFinally(j, w, file, err) ==
    /\ writer' = [writer EXCEPT ![j] = w]
    /\ fs' = [fs EXCEPT ![ParquetPath(j)] = file]
    /\ Raise(j, err)

\* The finally clause (lines 174-176) on an exception, then convert_zip's
\* except clause.
AbortStreaming(j, w, file, err) ==
    /\ writer' = [writer EXCEPT ![j] = CloseWriter(w)]
    /\ fs' = [fs EXCEPT ![ParquetPath(j)] = FileAfterClose(w, file)]
    /\ Raise(j, err)

\* Line 162 raises: the reader cannot read or parse the next chunk.
ChunkUnreadable(j) ==
    /\ pc[j] = "streaming"
    /\ MoreChunks(j)
    /\ Fault
    /\ AbortStreaming(j, writer[j], fs[ParquetPath(j)], "ReadError")

\* Lines 162-173, one turn of the loop.
WriteChunk(j) ==
    /\ pc[j] = "streaming"
    /\ MoreChunks(j)
    /\ LET table == ChunkTable(j)
           w     == WriterFor(j, table)
           file  == FileFor(j, table)
       IN  /\ SchemaAccepted(w, table)
           /\ writer' = [writer EXCEPT ![j] = w]
           /\ fs' = [fs EXCEPT ![ParquetPath(j)] =
                        [file EXCEPT !.rows = @ \o table.rows]]
           /\ chunk_idx' = [chunk_idx EXCEPT ![j] = @ + 1]
    /\ UNCHANGED <<archives, schema_files, log, pc, member_idx, log_buf,
                   outcome, runs, completed, faults,
                   log_pos>>

\* Line 173 raises ValueError: the table's schema is not the writer's.
ChunkRejected(j) ==
    /\ pc[j] = "streaming"
    /\ MoreChunks(j)
    /\ LET table == ChunkTable(j)
       IN  /\ ~SchemaAccepted(WriterFor(j, table), table)
           /\ AbortStreaming(j, WriterFor(j, table), FileFor(j, table),
                             "SchemaMismatch")
    /\ UNCHANGED faults

\* Line 173 raises an I/O error: the chunk is not in the file.
ChunkWriteFails(j) ==
    /\ pc[j] = "streaming"
    /\ MoreChunks(j)
    /\ Fault
    /\ LET table == ChunkTable(j)
       IN  /\ SchemaAccepted(WriterFor(j, table), table)
           /\ AbortStreaming(j, WriterFor(j, table), FileFor(j, table),
                             "WriteError")

\* The reader is exhausted: finally closes the writer (lines 174-176).
EndStreaming(j) ==
    /\ pc[j] = "streaming"
    /\ ~MoreChunks(j)
    /\ writer' = [writer EXCEPT ![j] = CloseWriter(writer[j])]
    /\ fs' = [fs EXCEPT ![ParquetPath(j)] = FileAfterClose(writer[j], @)]
    /\ Proceed(j, log_buf[j])

\* ------------------------------------------------------------------------
\* Jobs that run at the same time
\* ------------------------------------------------------------------------

Running(j) == pc[j] \in {"archive", "member", "streaming"}

\* The first half of the write of job j's log handle, while another job has
\* the log file open too: the handle goes to what is the end of the file now.
SeekLogEnd(j) ==
    /\ Running(j)
    /\ \E k \in Jobs \ {j} : Running(k)
    /\ ~log_pos[j].placed
    /\ log_pos' = [log_pos EXCEPT ![j] = AtOffset(Len(log))]
    /\ UNCHANGED <<archives, schema_files, fs, log, pc, member_idx, chunk_idx,
                   writer, log_buf, outcome, runs, completed, faults>>

\* Two archives of one dataset: two that give the same table name, and two
\* that do not.
ParZipPairs ==
    {{<<"g_patent", "tsv", "zip">>, <<"g_patent", "zip">>},
     {<<"g_patent", "tsv", "zip">>, <<"g_patent_abstract", "zip">>}}

ParRows ==
    {<<RawRow(sWhole)>>,
     [k \in 1..MaxRows |-> RawRow(IF k % 2 = 1 THEN sWhole ELSE sFraction)]}

ParArchives ==
    {<<TxtMember>>} \cup {<<TsvMember(sz, r)>> : sz \in Sizes, r \in ParRows}

ParSchemaArtifacts ==
    {[kind |-> "absent", fields |-> <<>>],
     [kind |-> "json", fields |-> <<Field("id", "STRING"), Field("v", "INTEGER")>>]}

InitPar ==
    \E names \in ParZipPairs :
        /\ archives \in [names -> ParArchives]
        /\ schema_files \in [{TableName(z) : z \in names} -> ParSchemaArtifacts]
        /\ InitJobs(names)

\* ------------------------------------------------------------------------
\* Specification
\* ------------------------------------------------------------------------

Next ==
    \/ \E j \in Jobs : GenerateTask(j)
    \/ \E j \in Jobs : Rebuild(j)
    \/ \E j \in Jobs : Retry(j)
    \/ \E j \in Jobs : SkipConverted(j)
    \/ \E j \in Jobs : StartConversion(j)
    \/ \E j \in Jobs : ArchiveUnreadable(j)
    \/ \E j \in Jobs : NoTsvMembers(j)
    \/ \E j \in Jobs : OpenArchive(j)
    \/ \E j \in Jobs : MemberUnreadable(j)
    \/ \E j \in Jobs : BeginStreaming(j)
    \/ \E j \in Jobs : ConvertBuffered(j)
    \/ \E j \in Jobs : BufferedWriteFails(j)
    \/ \E j \in Jobs : ChunkUnreadable(j)
    \/ \E j \in Jobs : WriteChunk(j)
    \/ \E j \in Jobs : ChunkRejected(j)
    \/ \E j \in Jobs : ChunkWriteFails(j)
    \/ \E j \in Jobs : EndStreaming(j)

\* One archive: the job has the log file to itself.
Spec == Init /\ [][Next]_vars

\* One build of two archives: the scheduler runs each job once and may run
\* the two in parallel.
NextPar ==
    \/ \E j \in Jobs : GenerateTask(j)
    \/ \E j \in Jobs : SkipConverted(j)
    \/ \E j \in Jobs : StartConversion(j)
    \/ \E j \in Jobs : ArchiveUnreadable(j)
    \/ \E j \in Jobs : NoTsvMembers(j)
    \/ \E j \in Jobs : OpenArchive(j)
    \/ \E j \in Jobs : MemberUnreadable(j)
    \/ \E j \in Jobs : BeginStreaming(j)
    \/ \E j \in Jobs : ConvertBuffered(j)
    \/ \E j \in Jobs : BufferedWriteFails(j)
    \/ \E j \in Jobs : ChunkUnreadable(j)
    \/ \E j \in Jobs : WriteChunk(j)
    \/ \E j \in Jobs : ChunkRejected(j)
    \/ \E j \in Jobs : ChunkWriteFails(j)
    \/ \E j \in Jobs : EndStreaming(j)
    \/ \E j \in Jobs : SeekLogEnd(j)

SpecPar == InitPar /\ [][NextPar]_vars

\* ------------------------------------------------------------------------
\* Claims
\* ------------------------------------------------------------------------

IsStrategyLine(line) == line.kind \in {"STREAMING", "IN_MEMORY"}

\* The table a member converts to when it is converted as one block.
MemberTable(j, i) ==
    LET m == TsvMembers(j)[i]
    IN  TypedTable(ReadFrame(m.header, m.rows),
                   ColumnTypes(j)[1], ColumnTypes(j)[2])

\* Job j took this step.
Stepped(j) ==
    \/ pc'[j] # pc[j]
    \/ chunk_idx'[j] # chunk_idx[j]
    \/ member_idx'[j] # member_idx[j]

\* C1: in a streaming conversion every chunk that is handed to the open writer
\* has the schema (names, order, types) the writer was opened with on the
\* first chunk.
C1_ChunkSchemaFixed ==
    \A j \in Jobs :
        (pc[j] = "streaming" /\ writer[j].state = "Open" /\ MoreChunks(j))
            => ChunkTable(j).schema = writer[j].schema

\* C2: with no I/O error, a one-member archive that was converted with the
\* STREAMING strategy ends as the BUFFERED strategy ends on the same rows: it
\* succeeds, and the output has the schema and the typed rows of the block
\* conversion.
C2_PathIndependence ==
    \A j \in Jobs :
        ( /\ pc[j] \in {"done", "failed"}
          /\ outcome[j] # "skipped"
          /\ faults = 0
          /\ Len(TsvMembers(j)) = 1
          /\ use_streaming(TsvMembers(j)[1]) )
            => /\ outcome[j] = "converted"
               /\ fs[ParquetPath(j)] = WrittenFile(MemberTable(j, 1))

\* C3: a job that starts when its target output exists returns successfully
\* and changes nothing: the output files, the log on disk, the log buffer and
\* the writer stay as they are, and the archive is not opened.
C3_SkipHasNoSideEffect ==
    [][\A j \in Jobs :
          (pc[j] = "ready" /\ Exists(ParquetPath(j)) /\ Stepped(j))
              => /\ pc'[j] = "done"
                 /\ outcome'[j] = "skipped"
                 /\ fs' = fs
                 /\ log' = log
                 /\ log_buf' = log_buf
                 /\ writer' = writer
                 /\ member_idx' = member_idx
                 /\ chunk_idx' = chunk_idx]_vars

C3_Witness ==
    \E j \in Jobs :
        /\ pc[j] = "done"
        /\ outcome[j] = "skipped"
        /\ Exists(ParquetPath(j))
        /\ log # <<>>

\* C4: when a run of a job starts and finds its target output, an earlier run
\* of the job converted every member and returned.
C4_ExistenceMeansCompleted ==
    \A j \in Jobs :
        (pc[j] = "ready" /\ Exists(ParquetPath(j))) => completed[j]

\* C5: a job whose archive has TSV members and meets no I/O error does not
\* fail when the cells of the declared column are dates, whole numbers or
\* unparseable text.
NoFractionCell(j) ==
    \A i \in 1..Len(archives[j]) :
        \A k \in 1..Len(archives[j][i].rows) :
            archives[j][i].rows[k]["v"] # StrV(sFraction)

C5_UnparseableCellsNeverFail ==
    \A j \in Jobs :
        (faults = 0 /\ TsvMembers(j) # <<>> /\ NoFractionCell(j))
            => pc[j] # "failed"

\* C6: a string cell that starts and ends with a double quote and has at
\* least two characters loses exactly that pair; every other string cell is
\* written unchanged.
NormalizedQuotes(v) ==
    IF Len(v) >= 2 /\ v[1] = Quote /\ v[Len(v)] = Quote
    THEN SubSeq(v, 2, Len(v) - 1)
    ELSE v

C6_QuoteNormalization ==
    \A j \in Jobs :
        ( /\ pc[j] = "done"
          /\ outcome[j] = "converted"
          /\ Len(TsvMembers(j)) = 1
          /\ ColumnTypes(j) = <<NoneSet, NoneSet>> )
            => LET rows == TsvMembers(j)[1].rows
                   out  == fs[ParquetPath(j)].rows
               IN  /\ Len(out) = Len(rows)
                   /\ \A k \in 1..Len(rows) :
                          out[k][2] = StrV(NormalizedQuotes(rows[k]["v"].s))

\* C7: after a job converted an archive, the rows of every TSV member of the
\* archive are in an output file.
C7_OneOutputPerMember ==
    \A j \in Jobs :
        (pc[j] = "done" /\ outcome[j] = "converted")
            => \A i \in 1..Len(TsvMembers(j)) :
                   \E p \in DOMAIN fs :
                       /\ fs[p].exists
                       /\ fs[p].rows = MemberTable(j, i).rows

\* C8: after the first run of a job failed, the log holds one strategy line
\* for every member converted before the failing one and none for the member
\* that failed.
C8_ErrorInsteadOfStrategyLine ==
    \A j \in Jobs :
        (pc[j] = "failed" /\ runs[j] = 1)
            => Len(SelectSeq(log, IsStrategyLine)) =
                   (IF member_idx[j] = 0 THEN 0 ELSE member_idx[j] - 1)

\* C9: a step of a job in which an error is raised (an I/O error of the
\* archive, the reader or the output file, or a chunk the writer rejects)
\* ends the job failed, and a job that ends failed has the ERROR line of its
\* archive and error as the last line of the log on disk, nothing left in its
\* log buffer, and that same error as what it raised.
ErrorsAt(where) ==
    IF where = "archive" THEN {"BadZipFile", "NoTsvMembers"}
    ELSE IF where \in {"member", "streaming"}
         THEN {"ReadError", "WriteError", "SchemaMismatch"}
         ELSE {}

C9_ErrorsLoggedAndReraised ==
    [][\A j \in Jobs :
          /\ (Stepped(j) /\ faults' # faults) => pc'[j] = "failed"
          /\ ( /\ Stepped(j)
               /\ pc[j] = "streaming"
               /\ MoreChunks(j)
               /\ ~SchemaAccepted(WriterFor(j, ChunkTable(j)), ChunkTable(j)) )
                 => pc'[j] = "failed"
          /\ (pc[j] # "failed" /\ pc'[j] = "failed")
                 => /\ outcome'[j] \in ErrorsAt(pc[j])
                    /\ log' # <<>>
                    /\ log'[Len(log')] = ErrorLine(j, outcome'[j])
                    /\ Len(log') = Len(log) + Len(log_buf[j]) + 1
                    /\ log_buf'[j] = <<>>]_vars

C9_Witness ==
    \E j \in Jobs :
        /\ pc[j] = "failed"
        /\ outcome[j] = "WriteError"
        /\ writer[j].state = "Closed"
        /\ log[Len(log)] = ErrorLine(j, "WriteError")

\* C10: the job of an archive without a TSV member fails with the
\* no-member error, which is logged and raised; no member is converted, no
\* writer is made and no output file is created or changed.
C10_NoTsvMembersFails ==
    [][\A j \in Jobs :
          ( /\ pc[j] = "archive"
            /\ TsvMembers(j) = <<>>
            /\ Stepped(j)
            /\ faults' = faults )
              => /\ pc'[j] = "failed"
                 /\ outcome'[j] = "NoTsvMembers"
                 /\ log' = Append(log, ErrorLine(j, "NoTsvMembers"))
                 /\ fs' = fs
                 /\ writer' = writer
                 /\ member_idx'[j] = 0]_vars

C10_Witness ==
    \E j \in Jobs :
        /\ pc[j] = "failed"
        /\ outcome[j] = "NoTsvMembers"
        /\ archives[j] # <<>>
        /\ ~Exists(ParquetPath(j))

\* C11: when the schema artifact of a job's table is missing or unparseable,
\* the resolver declares no column DATE and none INTEGER, the job does not
\* fail unless the environment raises an I/O error, and the output of a
\* converted one-member archive holds every cell as the string read from the
\* member, with only the outer quotes removed.
SchemaUnavailable(j) ==
    schema_files[TableName(j)].kind \in {"absent", "malformed"}

UncoercedRow(row) == <<StripCell(row["id"]), StripCell(row["v"])>>

C11_NoSchemaNoCoercion ==
    \A j \in Jobs :
        SchemaUnavailable(j) =>
            /\ ColumnTypes(j)[1].set = {}
            /\ ColumnTypes(j)[2].set = {}
            /\ (faults = 0 /\ TsvMembers(j) # <<>>) => pc[j] # "failed"
            /\ ( /\ pc[j] = "done"
                 /\ outcome[j] = "converted"
                 /\ Len(TsvMembers(j)) = 1 )
                   => LET rows == TsvMembers(j)[1].rows
                          out  == fs[ParquetPath(j)]
                      IN  /\ out.rows = [k \in 1..Len(rows) |->
                                            UncoercedRow(rows[k])]
                          /\ \A c \in 1..Len(out.schema) :
                                 out.schema[c].type \in {"string", "null"}

C11_Witness ==
    \E j \in Jobs :
        /\ schema_files[TableName(j)].kind = "malformed"
        /\ pc[j] = "done"
        /\ outcome[j] = "converted"
        /\ Len(TsvMembers(j)) = 1
        /\ use_streaming(TsvMembers(j)[1])
        /\ fs[ParquetPath(j)].rows = <<<<StrV(<<"k">>), StrV(sDate)>>>>

\* The blocks of rows a job is about to normalize, coerce and write, each with
\* the table the job makes of it: the next chunk of a streamed member, or the
\* whole of a buffered one.
PendingBlocks(j) ==
    IF pc[j] = "streaming" /\ MoreChunks(j)
    THEN {<<NextChunk(CurrentMember(j).rows, ChunkSize(j), chunk_idx[j]),
            ChunkTable(j)>>}
    ELSE IF pc[j] = "member" /\ ~use_streaming(CurrentMember(j))
         THEN {<<CurrentMember(j).rows, BufferedTable(j)>>}
         ELSE {}

\* Column v of a table: its type and its values.
ColumnV(table) ==
    [type   |-> table.schema[2].type,
     values |-> [k \in 1..Len(table.rows) |-> table.rows[k][2]]]

\* Column v is declared INTEGER and not DATE.
IntegerOnly(j) ==
    /\ "v" \in ColumnTypes(j)[2].set
    /\ "v" \notin ColumnTypes(j)[1].set

\* The numbers the cells of column v parse to, null where they do not parse.
ParsedCells(rows) ==
    [k \in 1..Len(rows) |-> ToNumericCell(StripCell(rows[k]["v"]))]

NonNull(nums) == {k \in 1..Len(nums) : ~IsNull(nums[k])}

Signed(neg, n) == IF neg THEN 0 - n ELSE n

\* The column as C12 states it: integers when every number is whole, else
\* the numbers as they were parsed.
ExactWhole(x) == x.frac = <<>>

ColumnAsClaimed(nums) ==
    IF \A k \in NonNull(nums) : ExactWhole(nums[k].f)
    THEN [type   |-> "int64",
          values |-> [k \in 1..Len(nums) |->
                         IF k \in NonNull(nums)
                         THEN IntV(Signed(nums[k].f.neg, nums[k].f.ip))
                         ELSE Null]]
    ELSE [type |-> "double", values |-> nums]

\* C12: the cells of a declared INTEGER column of one block that do not parse
\* as numbers become null; when every number is whole the column is typed
\* int64 and holds those integers, otherwise it is typed double and holds the
\* numbers unrounded; a column without any number is typed int64.
C12_IntegerCoercion ==
    \A j \in Jobs :
        IntegerOnly(j) =>
            \A b \in PendingBlocks(j) :
                ColumnV(b[2]) = ColumnAsClaimed(ParsedCells(b[1]))

\* The column with the tolerance of line 124: a number counts as whole when
\* it is less than 1e-10 away from an integer, and is then rounded to it.
WithinTolerance(x) ==
    \/ \A k \in 1..Min(Len(x.frac), WHOLE_TOLERANCE_DIGITS) : x.frac[k] = 0
    \/ /\ Len(x.frac) >= WHOLE_TOLERANCE_DIGITS
       /\ \A k \in 1..WHOLE_TOLERANCE_DIGITS : x.frac[k] = 9

Nearest(x) ==
    Signed(x.neg, IF x.frac # <<>> /\ x.frac[1] = 9 THEN x.ip + 1 ELSE x.ip)

ColumnWithTolerance(nums) ==
    IF \A k \in NonNull(nums) : WithinTolerance(nums[k].f)
    THEN [type   |-> "int64",
          values |-> [k \in 1..Len(nums) |->
                         IF k \in NonNull(nums) THEN IntV(Nearest(nums[k].f))
                         ELSE Null]]
    ELSE [type |-> "double", values |-> nums]

\* C12 (amended): as C12, with "whole" read as "less than 1e-10 away from an
\* integer": when every number of the block is that close to an integer the
\* column is typed int64 and holds the nearest integers, otherwise it is typed
\* double and holds the numbers unrounded.
C12_IntegerCoercionWithinTolerance ==
    \A j \in Jobs :
        IntegerOnly(j) =>
            \A b \in PendingBlocks(j) :
                ColumnV(b[2]) = ColumnWithTolerance(ParsedCells(b[1]))

C12_Witness ==
    \E j \in Jobs :
        /\ IntegerOnly(j)
        /\ pc[j] = "done"
        /\ outcome[j] = "converted"
        /\ use_streaming(TsvMembers(j)[1])
        /\ fs[ParquetPath(j)].schema[2].type = "double"
        /\ fs[ParquetPath(j)].rows =
               <<<<StrV(<<"k">>), FloatV(Decimal(FALSE, 2, <<5>>))>>,
                 <<StrV(<<"k">>), Null>>>>

\* Column v is declared DATE and not INTEGER.
DateOnly(j) ==
    /\ "v" \in ColumnTypes(j)[1].set
    /\ "v" \notin ColumnTypes(j)[2].set

\* Four digits, a hyphen, two digits, a hyphen, two digits.
MatchesDateFormat(s) ==
    /\ Len(s) = 10
    /\ AllDigits(SubSeq(s, 1, 4))
    /\ s[5] = "-"
    /\ AllDigits(SubSeq(s, 6, 7))
    /\ s[8] = "-"
    /\ AllDigits(SubSeq(s, 9, 10))

DateAsClaimed(x) ==
    IF x.t = "str" /\ MatchesDateFormat(x.s)
    THEN DateV(DigitsToNat(SubSeq(x.s, 1, 4)), DigitsToNat(SubSeq(x.s, 6, 7)),
               DigitsToNat(SubSeq(x.s, 9, 10)))
    ELSE Null

\* C13: in a block whose column v is declared DATE, a cell written as four
\* digits, hyphen, two digits, hyphen, two digits becomes the date of that
\* year, month and day, every other cell of v becomes null, and column id,
\* which is not declared DATE, keeps its strings.
C13_DateCoercion ==
    \A j \in Jobs :
        DateOnly(j) =>
            \A b \in PendingBlocks(j) :
                \A k \in 1..Len(b[1]) :
                    /\ b[2].rows[k][2] = DateAsClaimed(StripCell(b[1][k]["v"]))
                    /\ b[2].rows[k][1] = StripCell(b[1][k]["id"])

\* The strategy a member of that size is to be converted with.
StrategyOfSize(size) ==
    IF size >= SIZE_THRESHOLD_BYTES THEN "STREAMING" ELSE "IN_MEMORY"

\* C14: a member is converted as a stream exactly when its uncompressed size
\* is at least the threshold: a job is in the streaming loop only for such a
\* member, the strategy lines of the members the running job has handled name
\* STREAMING for every member of at least the threshold and IN_MEMORY for
\* every smaller one, and so does every strategy line of the log.
C14_SizeClassifier ==
    \A j \in Jobs :
        /\ pc[j] = "streaming"
              => CurrentMember(j).file_size >= SIZE_THRESHOLD_BYTES
        /\ pc[j] \in {"member", "streaming"}
              => /\ Len(log_buf[j]) =
                        (IF pc[j] = "streaming" THEN member_idx[j]
                         ELSE member_idx[j] - 1)
                 /\ \A i \in 1..Len(log_buf[j]) :
                        /\ log_buf[j][i].size = TsvMembers(j)[i].file_size
                        /\ log_buf[j][i].kind =
                               StrategyOfSize(TsvMembers(j)[i].file_size)
        /\ \A i \in 1..Len(log) :
               IsStrategyLine(log[i])
                   => log[i].kind = StrategyOfSize(log[i].size)

C14_Witness ==
    /\ \E i \in 1..Len(log) :
           /\ log[i].kind = "STREAMING"
           /\ log[i].size = SIZE_THRESHOLD_BYTES
    /\ \E i \in 1..Len(log) :
           /\ log[i].kind = "IN_MEMORY"
           /\ log[i].size = SIZE_THRESHOLD_BYTES - 1

\* C15: a writer is open only while its job is inside the streaming
\* conversion of a member: once the conversion of the member has ended, by
\* the end of the chunks or by an error raised while a chunk is read, typed or
\* written, the writer is closed, and so is every writer of a job that has
\* returned or raised.
C15_WriterClosedOnExit ==
    \A j \in Jobs :
        writer[j].state = "Open" => pc[j] = "streaming"

C15_Witness ==
    \E j \in Jobs :
        /\ pc[j] = "failed"
        /\ outcome[j] = "ReadError"
        /\ chunk_idx[j] >= 1
        /\ writer[j].state = "Closed"
        /\ fs[ParquetPath(j)].footer

\* C16: the writer of a member goes Unopened -> Open(schema) -> Closed and no
\* other way.  It leaves Unopened only in the streaming loop on the first
\* chunk, and that step creates the output file with the schema the writer
\* holds; a step that writes a chunk leaves the writer Open, with the schema
\* it had when it was open before; an Open writer keeps its schema when it
\* is closed; a Closed writer is never Open again (the next member or run
\* starts with a writer of its own, Unopened); and a step of the streaming
\* loop that leaves the writer Unopened leaves the output file as it was.
C16_WriterStateMachine ==
    [][\A j \in Jobs :
          LET w    == writer[j]
              w2   == writer'[j]
              file == fs[ParquetPath(j)]
              new  == fs'[ParquetPath(j)]
          IN  /\ (w.state = "Unopened" /\ w2.state # "Unopened")
                     => /\ pc[j] = "streaming"
                        /\ chunk_idx[j] = 0
                        /\ new.exists
                        /\ new.schema = w2.schema
                        /\ w2.schema = ChunkTable(j).schema
              /\ (pc[j] = "streaming" /\ chunk_idx'[j] = chunk_idx[j] + 1)
                     => /\ w2.state = "Open"
                        /\ w.state = "Open" => (w2 = w /\ new.schema = file.schema)
                        /\ new.rows =
                              (IF w.state = "Open" THEN file.rows ELSE <<>>)
                                  \o ChunkTable(j).rows
              /\ w.state = "Open"
                     => (w2.state \in {"Open", "Closed"} /\ w2.schema = w.schema)
              /\ w.state = "Closed"
                     => \/ w2 = w
                        \/ w2 = Unopened /\ pc[j] \in {"ready", "member"}
              /\ (pc[j] = "streaming" /\ w2.state = "Unopened")
                     => new = file]_vars

C16_Witness ==
    \E j \in Jobs :
        /\ pc[j] = "done"
        /\ outcome[j] = "converted"
        /\ chunk_idx[j] >= 2
        /\ writer[j].state = "Closed"
        /\ writer[j].schema = fs[ParquetPath(j)].schema
        /\ Len(fs[ParquetPath(j)].rows) = 2

\* C17: no two jobs have a writer open on the same output path at the same
\* time.
C17_OneWriterPerOutput ==
    \A j, k \in Jobs :
        (j # k /\ ParquetPath(j) = ParquetPath(k))
            => ~(writer[j].state = "Open" /\ writer[k].state = "Open")

\* C18: every line of the log on disk is a whole line that one job wrote.
C18_LogLinesWhole ==
    \A i \in 1..Len(log) : log[i].kind # "PARTIAL"

\* C19: a step in which a job fails changes nothing of a job with another
\* output path: the other job's position, writer, output file, outcome, log
\* buffer and counters are after the step what they were before it.
C19_FailureIsolation ==
    [][\A j, k \in Jobs :
          ( /\ ParquetPath(j) # ParquetPath(k)
            /\ pc[j] # "failed"
            /\ pc'[j] = "failed" )
              => /\ pc'[k] = pc[k]
                 /\ writer'[k] = writer[k]
                 /\ fs'[ParquetPath(k)] = fs[ParquetPath(k)]
                 /\ outcome'[k] = outcome[k]
                 /\ member_idx'[k] = member_idx[k]
                 /\ chunk_idx'[k] = chunk_idx[k]
                 /\ log_buf'[k] = log_buf[k]
                 /\ runs'[k] = runs[k]]_vars

C19_Witness ==
    \E j, k \in Jobs :
        /\ ParquetPath(j) # ParquetPath(k)
        /\ pc[j] = "failed"
        /\ outcome[j] = "SchemaMismatch"
        /\ pc[k] = "streaming"
        /\ writer[k].state = "Open"
        /\ fs[ParquetPath(k)].rows # <<>>

\* C20: after a job converted an archive of one member, by either strategy,
\* the output file is complete and holds one row for every data row of the
\* member, the k-th output row being the typed k-th data row: no row is
\* lost, written twice or out of its place, whatever the chunk boundaries.
C20_RowsInOrder ==
    \A j \in Jobs :
        ( /\ pc[j] = "done"
          /\ outcome[j] = "converted"
          /\ Len(TsvMembers(j)) = 1 )
            => LET out == fs[ParquetPath(j)]
               IN  /\ out.footer
                   /\ Len(out.rows) = Len(TsvMembers(j)[1].rows)
                   /\ out.rows = MemberTable(j, 1).rows

C20_Witness ==
    \E j \in Jobs :
        /\ pc[j] = "done"
        /\ outcome[j] = "converted"
        /\ Len(TsvMembers(j)) = 1
        /\ use_streaming(TsvMembers(j)[1])
        /\ chunk_idx[j] = 2
        /\ fs[ParquetPath(j)].rows =
               <<<<StrV(<<"k">>), StrV(sWhole)>>,
                 <<StrV(<<"k">>), StrV(sFraction)>>>>

\* A string of at least two characters inside one pair of double quotes.
QuoteWrapped(x) == Len(x) >= 2 /\ x[1] = Quote /\ x[Len(x)] = Quote

Unwrapped(x) == SubSeq(x, 2, Len(x) - 1)

\* C21: every block, the chunk of a streamed member as well as the whole of
\* a buffered one, has its quotes removed before it is coerced: a cell of a
\* declared DATE column that is a date inside one pair of double quotes is
\* typed as that date, and a cell of a declared INTEGER column that is a
\* number inside one pair of double quotes is typed as that number, an
\* integer in an int64 column and the parsed number in a double column;
\* neither is null.
C21_NormalizedBeforeCoercion ==
    \A j \in Jobs :
        \A b \in PendingBlocks(j) :
            \A k \in 1..Len(b[1]) :
                LET raw   == b[1][k]["v"].s
                    typed == b[2].rows[k][2]
                IN  QuoteWrapped(raw) =>
                        /\ (DateOnly(j) /\ MatchesDateFormat(Unwrapped(raw)))
                               => /\ typed = DateAsClaimed(StrV(Unwrapped(raw)))
                                  /\ ~IsNull(typed)
                        /\ ( /\ IntegerOnly(j)
                             /\ ~IsNull(ParseNumber(Unwrapped(raw))) )
                               => typed =
                                    (IF b[2].schema[2].type = "int64"
                                     THEN IntV(Nearest(ParseNumber(Unwrapped(raw)).f))
                                     ELSE ParseNumber(Unwrapped(raw)))

C21_Witness ==
    \E j \in Jobs :
        /\ DateOnly(j)
        /\ pc[j] = "done"
        /\ outcome[j] = "converted"
        /\ Len(TsvMembers(j)) = 1
        /\ TsvMembers(j)[1].rows = <<RawRow(sQuotedDate)>>
        /\ fs[ParquetPath(j)].rows = <<<<StrV(<<"k">>), DateV(2020, 1, 5)>>>>


\* C22: the DATE columns and the INTEGER columns that the resolver returns
\* for the member a job is converting have no column in common, whatever
\* schema artifact was loaded.
C22_DeclaredSetsDisjoint ==
    \A j \in Jobs :
        pc[j] \in {"member", "streaming"} =>
            ColumnTypes(j)[1].set \cap ColumnTypes(j)[2].set = {}

====
